---- MODULE Spec2Model ----
(***************************************************************************)
(* The Lamp session of custom_components/hellofairy/hello_fairy.py as a    *)
(* state machine.  The Lamp's fields are the shared state; every coroutine *)
(* of the class is cut at its await points (radio connect, radio           *)
(* disconnect, radio write, asyncio.sleep) and each piece between two      *)
(* awaits is one atomic action, as on the asyncio event loop.  The radio   *)
(* (bleak) is the environment: it completes or fails the awaited           *)
(* operations, drops links, and delivers disconnected notifications.       *)
(***************************************************************************)
EXTENDS Integers, Sequences, FiniteSets, TLC

(* ------------------------------ bounds -------------------------------- *)

\* radio handles (BleakClient objects) establish_connection may hand out
MaxHandles == 2
\* observers add_callback_on_state_changed may register
MaxObservers == 2

(* ----------------------------- constants ------------------------------ *)

\* class Conn(enum.Enum)
DISCONNECTED == 1
UNPAIRED == 2
PAIRING == 3
PAIRED == 4

\* self._client = None
None == 0

\* callers of the session: one in the sequential specification, two when
\* calls overlap on the event loop
Callers == {1}
OverlappingCallers == {1, 2}

Intents == {"turn_on", "turn_off", "set_brightness", "set_color"}

\* outcomes of an awaited radio operation: it returns, or raises
\* asyncio.TimeoutError or BleakError
Failures == {"TimeoutError", "BleakError"}

\* arguments the callers pass
BrightnessArgs == {-5, 70, 150}
ColorArgs == {<<100, 250, 50>>, <<300, -1, 0>>}
OptBrightnessArgs == {<<>>, <<70>>, <<150>>}

VARIABLES
    client,           \* self._client: None or the handle of the BleakClient
    conn,             \* self._conn
    is_on,            \* self._is_on
    rgb,              \* self._rgb
    brightness,       \* self._brightness
    state_callbacks,  \* self._state_callbacks
    handles,          \* radio: number of handles established so far
    is_connected,     \* radio: BleakClient.is_connected of each handle
    dropped,          \* radio: handles whose disconnected notification is due
    cb_log,           \* observers invoked by the latest diconnected_cb
    task              \* per caller: position and locals of the running call

vars == <<client, conn, is_on, rgb, brightness, state_callbacks, handles,
          is_connected, dropped, cb_log, task>>

lamp == <<client, conn, is_on, rgb, brightness, state_callbacks>>
cache == <<is_on, rgb, brightness>>
radio == <<handles, is_connected, dropped>>

(* --------------------------- pure functions --------------------------- *)

\* hex digits of the literals handed to bytes.fromhex
HexTurnOn == <<10, 10, 0, 2, 0, 1, 0, 1, 11, 11>>
HexTurnOff == <<10, 10, 0, 2, 0, 1, 0, 0, 11, 11>>
HexColor == <<10, 10, 0, 3, 0, 7, 0, 1, 0, 0, 1, 4, 0, 3, 14, 8, 0, 3, 8, 12, 11, 11>>

fromhex_low_digit_first(d) ==
    [i \in 1..(Len(d) \div 2) |-> d[2 * i - 1] + 16 * d[2 * i]]

\* bytes.fromhex: two hex digits per byte
fromhex(d) == [i \in 1..(Len(d) \div 2) |-> 16 * d[2 * i - 1] + d[2 * i]]

Min(a, b) == IF a < b THEN a ELSE b
Max(a, b) == IF a > b THEN a ELSE b

ClampBrightness_upper_only(b) == Min(100, b)

\* brightness = min(100, max(0, int(brightness)))
ClampBrightness(b) == Min(100, Max(0, b))

bits_power_frame_for_all(o) ==
    CASE o = "turn_on" -> fromhex(HexTurnOn)
      [] o = "turn_off" -> fromhex(HexTurnOff)
      [] o = "set_brightness" -> fromhex(HexTurnOn)
      [] o = "set_color" -> fromhex(HexTurnOn)
      [] OTHER -> <<>>

\* the bits each intent hands to send_cmd
bits(o) ==
    CASE o = "turn_on" -> fromhex(HexTurnOn)
      [] o = "turn_off" -> fromhex(HexTurnOff)
      [] o = "set_brightness" -> fromhex(HexColor)
      [] o = "set_color" -> fromhex(HexColor)
      [] OTHER -> <<>>

\* property available
available(c) == c = PAIRED

run_state_changed_cb_reversed(cbs, c) ==
    [i \in 1..Len(cbs) |-> [fn |-> cbs[Len(cbs) + 1 - i], available |-> available(c)]]

\* run_state_changed_cb: the observers in list order, each with the value of
\* available it finds
run_state_changed_cb(cbs, c) ==
    [i \in 1..Len(cbs) |-> [fn |-> cbs[i], available |-> available(c)]]

\* except asyncio.TimeoutError / except BleakError around the awaits of
\* connect, disconnect and send_cmd
ConnectCatches_timeout_only(e) == e = "TimeoutError"
DisconnectCatches_timeout_only(e) == e = "TimeoutError"
SendCatches_bleak_only(e) == e = "BleakError"

ConnectCatches(e) == e \in {"TimeoutError", "BleakError"}
DisconnectCatches(e) == e \in {"TimeoutError", "BleakError"}
SendCatches(e) == e \in {"TimeoutError", "BleakError"}

\* pair(): rejects when not UNPAIRED or no client; otherwise the pairing write
\* is commented out.  Neither branch assigns self._conn.
pair(c, cl) == IF c # UNPAIRED \/ cl = None THEN c ELSE c

\* get_state(): body is comments only
get_state(c) == c

(* ----------------------- positions of a coroutine --------------------- *)

SendAfterConnect_any_state(c, cl) ==
    IF cl # None THEN "write_gatt_char" ELSE "idle"

\* send_cmd after "await self.connect()" has returned
SendAfterConnect(c, cl) ==
    IF c = PAIRED /\ cl # None THEN "write_gatt_char" ELSE "idle"

\* connect() returns to its caller: the session's user, or send_cmd
ConnectReturns(o, c, cl) ==
    IF o = "connect" THEN "idle" ELSE SendAfterConnect(c, cl)

ConnectGuard_drops_old_client(o, c, cl) ==
    IF c = PAIRING \/ c = PAIRED THEN ConnectReturns(o, c, cl)
    ELSE "establish_connection"

ConnectGuard_pairing_only(o, c, cl) ==
    IF c = PAIRING THEN ConnectReturns(o, c, cl)
    ELSE IF cl # None THEN "disconnect_old" ELSE "establish_connection"

ConnectGuard_keeps_old_client(o, c, cl) ==
    IF c = PAIRING \/ c = PAIRED \/ cl # None THEN ConnectReturns(o, c, cl)
    ELSE "establish_connection"

\* connect() from its re-entrancy guard on
ConnectGuard(o, c, cl) ==
    IF c = PAIRING \/ c = PAIRED THEN ConnectReturns(o, c, cl)
    ELSE IF cl # None THEN "disconnect_old" ELSE "establish_connection"

ConnectEntry_guard_first(o, c, cl, live) ==
    IF c = PAIRING \/ c = PAIRED THEN ConnectReturns(o, c, cl)
    ELSE IF cl # None /\ ~live[cl] THEN "disconnect_stale" ELSE ConnectGuard(o, c, cl)

\* connect() from its first line: the check for a dropped connection
ConnectEntry(o, c, cl, live) ==
    IF cl # None /\ ~live[cl] THEN "disconnect_stale" ELSE ConnectGuard(o, c, cl)

\* disconnect() from its first line
DisconnectEntry(cl) == IF cl = None THEN "idle" ELSE "disconnect"

AwaitsDisconnect == {"disconnect", "disconnect_stale", "disconnect_old"}

\* the caller's record once its coroutine has moved to position p
Arrive(r, p, cl) ==
    [r EXCEPT
        !.pc = p,
        !.hnd = IF p \in AwaitsDisconnect \cup {"write_gatt_char"} THEN cl ELSE @,
        !.estab = IF p = "establish_connection" THEN @ + 1 ELSE @,
        !.writes = IF p = "write_gatt_char" THEN Append(@, bits(r.op)) ELSE @,
        !.sent = IF p = "idle" /\ r.op \in Intents /\ @ = "none" THEN "False" ELSE @]

\* the awaited radio operation of position r.pc raised
Failed(r) == [r EXCEPT !.err = r.pc]

\* the exception leaves the session's method
Raise(r) == [r EXCEPT !.pc = "idle", !.raised = TRUE]

NoArgs == [rgb |-> <<0, 0, 0>>, requested |-> <<>>, brightness |-> 0]

\* the record of a call that starts: op is the method called, again whether
\* the call before it was of the same method, sent the value send_cmd
\* returned, raised whether an exception left the method, err the latest await
\* that raised, writes the frames handed to write_gatt_char, estab the calls of
\* establish_connection, fired the observers the call invoked
Fresh(o, a, before) ==
    [pc |-> "idle", op |-> o, again |-> (before = o), arg |-> a, hnd |-> None,
     sent |-> "none", raised |-> FALSE, err |-> "none", writes |-> <<>>,
     estab |-> 0, fired |-> <<>>]

(* -------------------------------- Init -------------------------------- *)

Init ==
    /\ client = None
    /\ conn = DISCONNECTED
    /\ is_on = FALSE
    /\ rgb = <<0, 0, 0>>
    /\ brightness = 0
    /\ state_callbacks = <<>>
    /\ handles = 0
    /\ is_connected = [h \in 1..MaxHandles |-> FALSE]
    /\ dropped = {}
    /\ cb_log = <<>>
    /\ task = [t \in OverlappingCallers |-> Fresh("none", NoArgs, "none")]

(* -------------------------- calls of the API -------------------------- *)

\* a call runs synchronously up to its first await
Begin(t, o, a, p) ==
    /\ task[t].pc = "idle"
    /\ task' = [task EXCEPT ![t] = Arrive(Fresh(o, a, task[t].op), p, client)]
    /\ UNCHANGED <<lamp, radio, cb_log>>

connect(t) ==
    Begin(t, "connect", NoArgs, ConnectEntry("connect", conn, client, is_connected))

disconnect(t) ==
    Begin(t, "disconnect", NoArgs, DisconnectEntry(client))

turn_on(t) ==
    Begin(t, "turn_on", NoArgs, ConnectEntry("turn_on", conn, client, is_connected))

turn_off(t) ==
    Begin(t, "turn_off", NoArgs, ConnectEntry("turn_off", conn, client, is_connected))

set_brightness(t) ==
    \E b \in BrightnessArgs :
        Begin(t, "set_brightness",
              [rgb |-> <<0, 0, 0>>, requested |-> <<b>>, brightness |-> ClampBrightness(b)],
              ConnectEntry("set_brightness", conn, client, is_connected))

ColorBrightness_default_zero(ob, cached) == IF ob = <<>> THEN 0 ELSE ob[1]

\* the local brightness of set_color: the argument, or self._brightness
ColorBrightness(ob, cached) == IF ob = <<>> THEN cached ELSE ob[1]

set_color(t) ==
    \E c \in ColorArgs, ob \in OptBrightnessArgs :
        Begin(t, "set_color",
              [rgb |-> c, requested |-> ob, brightness |-> ColorBrightness(ob, brightness)],
              ConnectEntry("set_color", conn, client, is_connected))

(* ------------------ continuations after an await ---------------------- *)

\* "await self._client.disconnect()" completes or raises; disconnect() then
\* sets DISCONNECTED and its caller (the user, or connect) goes on
AfterDisconnect(p, o, cl) ==
    CASE p = "disconnect" -> "idle"
      [] p = "disconnect_stale" -> ConnectGuard(o, DISCONNECTED, cl)
      [] p = "disconnect_old" -> "establish_connection"

client_disconnect(t) ==
    /\ task[t].pc \in AwaitsDisconnect
    /\ \E e \in {"ok"} \cup Failures :
        /\ is_connected' = IF e = "ok"
                           THEN [is_connected EXCEPT ![task[t].hnd] = FALSE]
                           ELSE is_connected
        /\ IF e = "ok" \/ DisconnectCatches(e)
           THEN /\ conn' = DISCONNECTED
                /\ task' = [task EXCEPT ![t] =
                        Arrive(IF e = "ok" THEN @ ELSE Failed(@),
                               AfterDisconnect(@.pc, @.op, client), client)]
           ELSE /\ conn' = conn
                /\ task' = [task EXCEPT ![t] = Raise(Failed(@))]
    /\ UNCHANGED <<client, cache, state_callbacks, handles, dropped, cb_log>>

establish_connection_ok_returns(t) ==
    /\ task[t].pc = "establish_connection"
    /\ handles < MaxHandles
    /\ handles' = handles + 1
    /\ is_connected' = [is_connected EXCEPT ![handles + 1] = TRUE]
    /\ client' = handles + 1
    /\ conn' = pair(UNPAIRED, handles + 1)
    /\ task' = [task EXCEPT ![t] = Arrive(@, ConnectReturns(@.op, conn', handles + 1), handles + 1)]
    /\ UNCHANGED <<cache, state_callbacks, dropped, cb_log>>

\* "await establish_connection(...)" returns a new client: UNPAIRED, pair(),
\* then the coroutine sleeps 0.3 s
establish_connection_ok(t) ==
    /\ task[t].pc = "establish_connection"
    /\ handles < MaxHandles
    /\ handles' = handles + 1
    /\ is_connected' = [is_connected EXCEPT ![handles + 1] = TRUE]
    /\ client' = handles + 1
    /\ conn' = pair(UNPAIRED, handles + 1)
    /\ task' = [task EXCEPT ![t] = Arrive(@, "sleep_pairing", handles + 1)]
    /\ UNCHANGED <<cache, state_callbacks, dropped, cb_log>>

establish_connection_fails_goes_on(t) ==
    /\ task[t].pc = "establish_connection"
    /\ task' = [task EXCEPT ![t] = Arrive(Failed(@), "sleep_pairing", client)]
    /\ UNCHANGED <<lamp, radio, cb_log>>

\* "await establish_connection(...)" raises: logged, connect() returns
establish_connection_fails(t) ==
    /\ task[t].pc = "establish_connection"
    /\ \E e \in Failures :
        task' = [task EXCEPT ![t] =
            IF ConnectCatches(e)
            THEN Arrive(Failed(@), ConnectReturns(@.op, conn, client), client)
            ELSE Raise(Failed(@))]
    /\ UNCHANGED <<lamp, radio, cb_log>>

AfterPairingDelay_keeps_state(c) == get_state(c)

\* what connect() does when the 0.3 s sleep is over
AfterPairingDelay(c) == get_state(PAIRED)

sleep_pairing(t) ==
    /\ task[t].pc = "sleep_pairing"
    /\ conn' = AfterPairingDelay(conn)
    /\ task' = [task EXCEPT ![t] =
            Arrive([@ EXCEPT !.fired = @ \o run_state_changed_cb(state_callbacks, conn')],
                   ConnectReturns(@.op, conn', client), client)]
    /\ UNCHANGED <<client, cache, state_callbacks, radio, cb_log>>

\* "await self._client.write_gatt_char(...)" returns (only on a live link),
\* then the coroutine sleeps wait_notif
write_gatt_char_ok(t) ==
    /\ task[t].pc = "write_gatt_char"
    /\ is_connected[task[t].hnd]
    /\ task' = [task EXCEPT ![t] = Arrive(@, "sleep_wait_notif", client)]
    /\ UNCHANGED <<lamp, radio, cb_log>>

write_gatt_char_fails_retries(t) ==
    /\ task[t].pc = "write_gatt_char"
    /\ task' = [task EXCEPT ![t] = Arrive(Failed(@), "write_gatt_char", client)]
    /\ UNCHANGED <<lamp, radio, cb_log>>

\* "await self._client.write_gatt_char(...)" raises: send_cmd returns False
write_gatt_char_fails(t) ==
    /\ task[t].pc = "write_gatt_char"
    /\ \E e \in Failures :
        task' = [task EXCEPT ![t] =
            IF SendCatches(e) THEN Arrive(Failed(@), "idle", client) ELSE Raise(Failed(@))]
    /\ UNCHANGED <<lamp, radio, cb_log>>

\* the cache after send_cmd returned True to the intent
CacheAfter(o, a, on, col, bri) ==
    CASE o = "set_brightness" -> <<on, col, a.brightness>>
      [] o = "set_color" -> <<on, a.rgb, a.brightness>>
      [] OTHER -> <<on, col, bri>>

\* the sleep of send_cmd is over: it returns True and the intent finishes
sleep_wait_notif(t) ==
    /\ task[t].pc = "sleep_wait_notif"
    /\ LET after == CacheAfter(task[t].op, task[t].arg, is_on, rgb, brightness)
       IN  /\ is_on' = after[1]
           /\ rgb' = after[2]
           /\ brightness' = after[3]
    /\ task' = [task EXCEPT ![t] = Arrive([@ EXCEPT !.sent = "True"], "idle", client)]
    /\ UNCHANGED <<client, conn, state_callbacks, radio, cb_log>>

(* ------------------------- radio and observers ------------------------ *)

\* the link of a handle drops; its notification is due
link_drop(h) ==
    /\ h \in 1..handles
    /\ is_connected[h]
    /\ is_connected' = [is_connected EXCEPT ![h] = FALSE]
    /\ dropped' = dropped \cup {h}
    /\ UNCHANGED <<lamp, handles, cb_log, task>>

DisconnectedState_current_only(h, cl, c) == IF h = cl THEN DISCONNECTED ELSE c

\* the state diconnected_cb leaves for a notification about handle h, the
\* current client being cl (the comparison with self._client is commented out)
DisconnectedState(h, cl, c) == DISCONNECTED

diconnected_cb_releases_client(h) ==
    /\ h \in dropped
    /\ dropped' = dropped \ {h}
    /\ conn' = DisconnectedState(h, client, conn)
    /\ client' = None
    /\ cb_log' = run_state_changed_cb(state_callbacks, conn')
    /\ UNCHANGED <<cache, state_callbacks, handles, is_connected, task>>

\* the radio delivers the notification of handle h
diconnected_cb(h) ==
    /\ h \in dropped
    /\ dropped' = dropped \ {h}
    /\ conn' = DisconnectedState(h, client, conn)
    /\ cb_log' = run_state_changed_cb(state_callbacks, conn')
    /\ UNCHANGED <<client, cache, state_callbacks, handles, is_connected, task>>

add_callback_on_state_changed ==
    /\ Len(state_callbacks) < MaxObservers
    /\ state_callbacks' = Append(state_callbacks, Len(state_callbacks) + 1)
    /\ UNCHANGED <<client, conn, cache, radio, cb_log, task>>

(* ---------------------------- specification --------------------------- *)

Step(t) ==
    \/ connect(t)
    \/ disconnect(t)
    \/ turn_on(t)
    \/ turn_off(t)
    \/ set_brightness(t)
    \/ set_color(t)
    \/ client_disconnect(t)
    \/ establish_connection_ok(t)
    \/ establish_connection_fails(t)
    \/ sleep_pairing(t)
    \/ write_gatt_char_ok(t)
    \/ write_gatt_char_fails(t)
    \/ sleep_wait_notif(t)

Environment ==
    \/ \E h \in 1..MaxHandles : link_drop(h)
    \/ \E h \in 1..MaxHandles : diconnected_cb(h)
    \/ add_callback_on_state_changed

Next == (\E t \in Callers : Step(t)) \/ Environment

Spec == Init /\ [][Next]_vars

\* two callers whose calls overlap on the event loop: each calls connect()
\* or turn_on() while the other may be suspended at an await
OverlapStep(t) ==
    \/ connect(t)
    \/ turn_on(t)
    \/ client_disconnect(t)
    \/ establish_connection_ok(t)
    \/ establish_connection_fails(t)
    \/ sleep_pairing(t)
    \/ write_gatt_char_ok(t)
    \/ write_gatt_char_fails(t)
    \/ sleep_wait_notif(t)

NextOverlap ==
    \/ \E t \in OverlappingCallers : OverlapStep(t)
    \/ \E h \in 1..MaxHandles : link_drop(h)
    \/ \E h \in 1..MaxHandles : diconnected_cb(h)

SpecOverlap == Init /\ [][NextOverlap]_vars

\* the awaits of caller t: each radio operation returns or raises, each sleep
\* ends
Continue(t) ==
    \/ client_disconnect(t)
    \/ establish_connection_ok(t)
    \/ establish_connection_fails(t)
    \/ sleep_pairing(t)
    \/ write_gatt_char_ok(t)
    \/ write_gatt_char_fails(t)
    \/ sleep_wait_notif(t)

\* what a caller does under SpecFair: connect(), disconnect() and the intents
\* without a colour argument (set_color takes the same path through send_cmd)
FairStep(t) ==
    \/ connect(t)
    \/ disconnect(t)
    \/ turn_on(t)
    \/ turn_off(t)
    \/ set_brightness(t)
    \/ Continue(t)

NextFair == (\E t \in Callers : FairStep(t)) \/ Environment

\* sequential callers whose awaits all complete
SpecFair == Init /\ [][NextFair]_vars /\ \A t \in Callers : WF_vars(Continue(t))

(* ------------------------------- claims ------------------------------- *)

\* caller t starts a call in this step
Calls(t) == task[t].pc = "idle" /\ task'[t] # task[t]

\* positions inside connect()
InConnect == {"disconnect_stale", "disconnect_old", "establish_connection", "sleep_pairing"}

\* the connect() inside an intent of caller t returns to send_cmd in this step
ConnectReturnsToSend(t) ==
    /\ task'[t].op \in Intents
    /\ ~task'[t].raised
    /\ task'[t].pc \notin InConnect
    /\ task[t].pc \in InConnect \/ Calls(t)

\* C1: whenever the session becomes Paired, the state it leaves is Pairing:
\* no step takes connectionState to Paired from Unpaired (or from any state
\* other than Pairing).
C1_PairedOnlyFromPairing ==
    [][(conn' = PAIRED /\ conn # PAIRED) => conn = PAIRING]_vars

\* C2: in every reachable state, connectionState == Paired implies that the
\* radio handle _client is not None.
C2_PairedHasClient == conn = PAIRED => client # None

\* C2 witness: the session is Paired on its second handle, after a reconnect.
C2_Witness == conn = PAIRED /\ client = 2 /\ task[1].pc = "idle"

\* C3: send_cmd hands a frame to write_gatt_char only in the step in which its
\* connect() returned, and then exactly when the state is Paired and the client
\* is not None; otherwise it writes nothing and returns False.
C3_WriteOnlyWhenPaired ==
    [][\A t \in Callers :
        /\ ConnectReturnsToSend(t) =>
              IF conn' = PAIRED /\ client' # None
              THEN /\ task'[t].pc = "write_gatt_char"
                   /\ task'[t].writes = <<bits(task'[t].op)>>
                   /\ task'[t].hnd = client'
              ELSE /\ task'[t].pc = "idle"
                   /\ task'[t].writes = <<>>
                   /\ task'[t].sent = "False"
        /\ (task'[t].writes # task[t].writes /\ task'[t].writes # <<>>)
              => ConnectReturnsToSend(t)]_vars

\* C3 witness: an intent tried to connect, the connection failed, and send_cmd
\* returned False without a write although a client object exists.
C3_Witness ==
    /\ task[1].pc = "idle" /\ task[1].op \in Intents
    /\ task[1].estab = 1 /\ task[1].err = "establish_connection"
    /\ task[1].writes = <<>> /\ task[1].sent = "False"
    /\ client # None

\* C4: an intent whose implicit connection or whose radio write failed with a
\* timeout or link error returns normally with send_cmd reporting False, and
\* the cached is_on, rgb and brightness change only in a step in which a
\* send_cmd returns True.
C4_FailedIntentKeepsCache ==
    /\ [](\A t \in Callers :
            (/\ task[t].pc = "idle" /\ task[t].op \in Intents
             /\ task[t].err \in {"establish_connection", "write_gatt_char"})
            => (~task[t].raised /\ task[t].sent = "False"))
    /\ [][(cache' # cache) =>
            \E t \in Callers : task[t].sent # "True" /\ task'[t].sent = "True"]_vars

\* C4 witness: set_color asked for a new color, its write failed, and the
\* cached color is not the requested one.
C4_Witness ==
    /\ task[1].pc = "idle" /\ task[1].op = "set_color"
    /\ task[1].err = "write_gatt_char" /\ task[1].sent = "False"
    /\ task[1].arg.rgb # rgb

\* C5: when establish_connection fails with a timeout or link error, connect()
\* returns without raising, connectionState is Disconnected and the call has
\* invoked no observer.
C5_FailedConnectIsDisconnected ==
    \A t \in Callers :
        (task[t].pc = "idle" /\ task[t].err = "establish_connection")
        => (~task[t].raised /\ conn = DISCONNECTED /\ task[t].fired = <<>>)

\* C5 witness: connect() was entered on a dropped handle whose notification
\* was never delivered (the state was still Paired), observers are registered,
\* and the connection attempt failed.
C5_Witness ==
    /\ task[1].pc = "idle" /\ task[1].op = "connect"
    /\ task[1].err = "establish_connection"
    /\ client \in dropped /\ state_callbacks # <<>>

\* C6: connect() called while the state is Paired (or Pairing) and the handle
\* is connected returns at once: establish_connection is not called, no
\* disconnect is requested, no observer is invoked, client and state stay.
C6_ConnectWhenPairedIsNoOp ==
    [][\A t \in Callers :
        (/\ Calls(t) /\ task'[t].op = "connect"
         /\ conn \in {PAIRING, PAIRED}
         /\ client # None /\ is_connected[client])
        => (/\ task'[t].pc = "idle" /\ ~task'[t].raised
            /\ task'[t].estab = 0 /\ task'[t].hnd = None
            /\ task'[t].fired = <<>>
            /\ UNCHANGED <<client, conn, handles, is_connected>>)]_vars

\* C6 witness: the second of two consecutive connect() calls returned without
\* calling establish_connection, the session Paired on a connected handle.
C6_Witness ==
    /\ task[1].pc = "idle" /\ task[1].op = "connect" /\ task[1].again
    /\ task[1].estab = 0 /\ conn = PAIRED /\ is_connected[client]

\* C7: disconnect() never raises; once it has returned the state is
\* Disconnected, also when the radio-level disconnect failed and also for a
\* second disconnect() in a row; with no client it returns at once without
\* asking the radio.
C7_DisconnectIdempotent ==
    \A t \in Callers :
        (task[t].pc = "idle" /\ task[t].op = "disconnect")
        => /\ ~task[t].raised
           /\ conn = DISCONNECTED
           /\ client = None => (task[t].hnd = None /\ task[t].err = "none")

\* C7 witness: the second of two consecutive disconnect() calls returned, the
\* radio-level disconnect having raised.
C7_Witness ==
    /\ task[1].pc = "idle" /\ task[1].op = "disconnect" /\ task[1].again
    /\ task[1].err = "disconnect" /\ conn = DISCONNECTED

\* C8: after turn_on() completed with a successful write the cached is_on is
\* True, and after turn_off() completed with a successful write it is False.
C8_PowerIntentUpdatesIsOn ==
    \A t \in Callers :
        (task[t].pc = "idle" /\ task[t].sent = "True")
        => /\ task[t].op = "turn_on" => is_on = TRUE
           /\ task[t].op = "turn_off" => is_on = FALSE

\* C9: set_brightness(b) that completed with a successful write leaves the
\* cached brightness at min(100, max(0, b)), and no step of the call changes
\* the cached color.
C9_SetBrightnessClamps ==
    /\ [](\A t \in Callers :
            (/\ task[t].pc = "idle" /\ task[t].op = "set_brightness"
             /\ task[t].sent = "True")
            => LET b == task[t].arg.requested[1]
               IN  brightness = IF b < 0 THEN 0 ELSE IF b > 100 THEN 100 ELSE b)
    /\ [][\A t \in Callers :
            (task[t].op = "set_brightness" /\ task'[t].op = "set_brightness")
            => rgb' = rgb]_vars

\* C9 witness: set_brightness(150) succeeded on a lamp whose cached color had
\* been set before; the cached brightness is 100.
C9_Witness ==
    /\ task[1].pc = "idle" /\ task[1].op = "set_brightness"
    /\ task[1].sent = "True" /\ task[1].arg.requested = <<150>>
    /\ brightness = 100 /\ rgb = <<100, 250, 50>>

\* C10: in every reachable state the cached brightness is within 0..100 and
\* every component of the cached color is within 0..255.
C10_CacheInRange ==
    /\ brightness \in 0..100
    /\ \A i \in 1..3 : rgb[i] \in 0..255

\* send_cmd of caller t returns True in this step
SendSucceeds(t) == task[t].sent # "True" /\ task'[t].sent = "True"

\* the radio delivers a disconnected notification in this step
Notifies == dropped' # dropped /\ dropped' \subseteq dropped

\* C11: for in-range arguments, set_color(r, g, b, brightness) that completed
\* with a successful write leaves the cached color at (r, g, b) and the cached
\* brightness at the brightness passed; with brightness omitted the step that
\* completes the call leaves the cached brightness as it was.
C11_SetColorStoresArguments ==
    /\ [](\A t \in Callers :
            (/\ task[t].pc = "idle" /\ task[t].op = "set_color"
             /\ task[t].sent = "True"
             /\ \A i \in 1..3 : task[t].arg.rgb[i] \in 0..255
             /\ \A i \in 1..Len(task[t].arg.requested) :
                    task[t].arg.requested[i] \in 0..100)
            => (/\ rgb = task[t].arg.rgb
                /\ task[t].arg.requested # <<>>
                      => brightness = task[t].arg.requested[1]))
    /\ [][\A t \in Callers :
            (/\ SendSucceeds(t) /\ task'[t].op = "set_color"
             /\ task'[t].arg.requested = <<>>)
            => brightness' = brightness]_vars

\* C11 witness: set_color(100, 250, 50) without a brightness succeeded on a
\* lamp whose cached brightness was 70, and it still is.
C11_Witness ==
    /\ task[1].pc = "idle" /\ task[1].op = "set_color" /\ task[1].sent = "True"
    /\ task[1].arg.requested = <<>>
    /\ rgb = <<100, 250, 50>> /\ brightness = 70

\* C12: each disconnected notification invokes every registered observer
\* exactly once, in registration order, after the state was set to
\* Disconnected (each finds available false); no step removes or reorders a
\* registered observer.
C12_ObserverFanOut ==
    [][/\ Notifies =>
            /\ Len(cb_log') = Len(state_callbacks)
            /\ \A i \in 1..Len(state_callbacks) :
                  /\ cb_log'[i].fn = state_callbacks[i]
                  /\ cb_log'[i].available = FALSE
       /\ Len(state_callbacks') >= Len(state_callbacks)
       /\ \A i \in 1..Len(state_callbacks) :
              state_callbacks'[i] = state_callbacks[i]]_vars

\* C12 witness: a notification was delivered with two observers registered.
C12_Witness ==
    /\ Len(cb_log) = 2 /\ cb_log[1].fn = 1 /\ cb_log[2].fn = 2
    /\ conn = DISCONNECTED

\* C13: a disconnected notification makes available false and leaves the
\* cached is_on, brightness and color, the client and the observer list
\* unchanged.
C13_LinkDropKeepsCache ==
    [][Notifies =>
        /\ ~available(conn')
        /\ UNCHANGED <<is_on, rgb, brightness, client, state_callbacks>>]_vars

\* C13 witness: after a successful set_color(100, 250, 50) left the session
\* Paired, a notification made it Disconnected; the cache and the client stay.
C13_Witness ==
    /\ task[1].pc = "idle" /\ task[1].op = "set_color" /\ task[1].sent = "True"
    /\ conn = DISCONNECTED /\ client # None
    /\ rgb = <<100, 250, 50>> /\ state_callbacks # <<>> /\ cb_log # <<>>

\* C14: every frame turn_on() hands to the radio is the 5 bytes aa 02 01 01 bb
\* and every frame turn_off() hands to it is aa 02 01 00 bb, whatever the
\* cached state.
C14_PowerFrames ==
    \A t \in Callers :
        \A i \in 1..Len(task[t].writes) :
            /\ task[t].op = "turn_on" => task[t].writes[i] = <<170, 2, 1, 1, 187>>
            /\ task[t].op = "turn_off" => task[t].writes[i] = <<170, 2, 1, 0, 187>>

\* C14 witness: turn_on() wrote its frame on a session whose cache holds a
\* color and a brightness set before.
C14_Witness ==
    /\ task[1].op = "turn_on" /\ task[1].sent = "True"
    /\ task[1].writes = << <<170, 2, 1, 1, 187>> >>
    /\ rgb = <<100, 250, 50>> /\ brightness = 70

\* C15: every frame set_brightness and set_color hand to the radio is 11 bytes
\* long, begins with aa 03 07 01 and ends with 8c bb, whatever was requested.
C15_ColorFrames ==
    \A t \in Callers :
        task[t].op \in {"set_brightness", "set_color"} =>
            \A i \in 1..Len(task[t].writes) :
                /\ Len(task[t].writes[i]) = 11
                /\ SubSeq(task[t].writes[i], 1, 4) = <<170, 3, 7, 1>>
                /\ SubSeq(task[t].writes[i], 10, 11) = <<140, 187>>

\* C15 witness: set_color(300, -1, 0, 150) wrote a frame.
C15_Witness ==
    /\ task[1].op = "set_color" /\ Len(task[1].writes) = 1
    /\ task[1].arg.rgb = <<300, -1, 0>> /\ task[1].arg.requested = <<150>>

\* C16: an intent called while the state is not Paired goes, without a write,
\* to the disconnect of the old client or straight to establish_connection,
\* the disconnects lead on to establish_connection, and a frame is handed to
\* the radio only after establish_connection was called in the same call or
\* when the call found the state Paired.
C16_IntentReconnects ==
    [][\A t \in Callers :
        /\ (Calls(t) /\ task'[t].op \in Intents /\ conn # PAIRED)
              => /\ task'[t].pc \in {"disconnect_stale", "disconnect_old",
                                    "establish_connection"}
                 /\ task'[t].writes = <<>>
        /\ (/\ task[t].op \in Intents
            /\ task[t].pc \in {"disconnect_stale", "disconnect_old"}
            /\ task'[t].pc # task[t].pc)
              => task'[t].pc \in {"disconnect_old", "establish_connection"}
        /\ (task'[t].pc = "write_gatt_char" /\ task[t].pc # "write_gatt_char")
              => (task'[t].estab >= 1 \/ (Calls(t) /\ conn = PAIRED))]_vars

\* C16 witness: no connection has ever succeeded, so the turn_on() before
\* failed; the turn_on() right after it called establish_connection again.
C16_Witness ==
    /\ task[1].pc = "idle" /\ task[1].op = "turn_on" /\ task[1].again
    /\ handles = 0 /\ task[1].estab = 1
    /\ task[1].err = "establish_connection" /\ task[1].sent = "False"

\* C17: the step in which an intent's send_cmd returns True and the cache is
\* updated invokes every registered observer.
C17_IntentNotifiesObservers ==
    [][\A t \in Callers :
        SendSucceeds(t) =>
            Len(task'[t].fired) = Len(task[t].fired) + Len(state_callbacks)]_vars

\* C18: a disconnected notification for any handle, the current client or a
\* replaced one, sets the state to Disconnected and runs the observers.
C18_StaleNotificationResets ==
    [][\A h \in 1..MaxHandles :
        (h \in dropped /\ h \notin dropped')
        => (conn' = DISCONNECTED /\ Len(cb_log') = Len(state_callbacks))]_vars

\* C18 witness: connect() replaced a dropped handle by handle 2 and returned
\* Paired; the late notification of handle 1 then left the session
\* Disconnected although handle 2 is connected.
C18_Witness ==
    /\ task[1].pc = "idle" /\ task[1].op = "connect"
    /\ task[1].estab = 1 /\ task[1].err # "establish_connection"
    /\ client = 2 /\ is_connected[2]
    /\ conn = DISCONNECTED /\ cb_log # <<>>

\* C19: when connect() has returned and the state is Paired, no disconnected
\* notification has been delivered for the current client: its link is up, or
\* its notification is still due.
C19_PairedMeansNoNotification ==
    \A t \in Callers :
        (task[t].pc = "idle" /\ task[t].op = "connect" /\ conn = PAIRED)
        => (is_connected[client] \/ client \in dropped)

\* C20: while a connect() is suspended in establish_connection or in the
\* pairing delay, a second connect() (or the connect() of an intent) on the
\* same session neither calls establish_connection as well nor asks the radio
\* to disconnect the connected handle the first call established.
C20_GuardPreventsDuplicateConnect ==
    \A t, u \in OverlappingCallers :
        t # u =>
            /\ ~(/\ task[t].pc = "establish_connection"
                 /\ task[u].pc = "establish_connection")
            /\ ~(/\ task[t].pc = "sleep_pairing"
                 /\ task[u].pc = "disconnect_old"
                 /\ task[u].hnd = client /\ is_connected[client])

\* C21: the session's client is always the handle established last; a call
\* reaches establish_connection while a client exists only from the await of
\* the radio disconnect of that very client; and a handle that
\* establish_connection returns becomes the client.  So every established
\* handle other than the client has been asked to disconnect.
C21_OneHandleAtATime ==
    /\ [](client = handles)
    /\ [][\A t \in Callers :
            /\ (/\ task'[t].pc = "establish_connection"
                /\ task[t].pc # "establish_connection"
                /\ client # None)
                  => (/\ task[t].pc \in {"disconnect_stale", "disconnect_old"}
                      /\ task[t].hnd = client)
            /\ handles' # handles => client' = handles']_vars

\* C21 witness: a call replaced handle 1 by handle 2 after every radio
\* disconnect it awaited for handle 1 had succeeded; only handle 2 is connected.
C21_Witness ==
    /\ task[1].pc = "idle" /\ task[1].estab = 1 /\ task[1].err = "none"
    /\ client = 2 /\ is_connected[2] /\ ~is_connected[1]

\* C22: the step that ends the pairing delay of a connect() sets the state to
\* Paired and invokes every registered observer once, in order, each seeing
\* available = TRUE; a call invokes observers in no other step of connect(),
\* so not before Paired and not twice; a connect() that returns at the guard
\* invokes none.
C22_ConnectNotifiesOnceWhenPaired ==
    [][\A t \in Callers :
        /\ (task[t].pc = "sleep_pairing" /\ task'[t].pc # "sleep_pairing")
              => /\ conn' = PAIRED
                 /\ task[t].fired = <<>>
                 /\ Len(task'[t].fired) = Len(state_callbacks)
                 /\ \A i \in 1..Len(state_callbacks) :
                        task'[t].fired[i] = [fn |-> state_callbacks[i], available |-> TRUE]
        /\ (task'[t].op = "connect" /\ task'[t].fired # <<>> /\ task[t].pc # "sleep_pairing")
              => task'[t].fired = task[t].fired
        /\ (Calls(t) /\ task'[t].op = "connect" /\ conn = PAIRED
                /\ client # None /\ is_connected[client])
              => (task'[t].pc = "idle" /\ task'[t].fired = <<>> /\ UNCHANGED <<lamp, radio>>)]_vars

\* C22 witness: connect() established a link and returned Paired after it
\* invoked both registered observers, each with available = TRUE.
C22_Witness ==
    /\ task[1].pc = "idle" /\ task[1].op = "connect" /\ task[1].estab = 1
    /\ conn = PAIRED /\ Len(state_callbacks) = 2
    /\ task[1].fired = <<[fn |-> 1, available |-> TRUE], [fn |-> 2, available |-> TRUE]>>

\* C23: an intent hands at most one frame to write_gatt_char, and exactly one
\* when send_cmd returned True; a write that raises a caught error ends the
\* call there with False, without another write and without a change of the
\* connection state, the client or the cache; connect() with its get_state()
\* writes nothing.
C23_AtMostOneWrite ==
    /\ [](\A t \in Callers :
            /\ Len(task[t].writes) <= 1
            /\ task[t].sent = "True" => Len(task[t].writes) = 1
            /\ task[t].op \notin Intents => task[t].writes = <<>>)
    /\ [][\A t \in Callers :
            (/\ task[t].pc = "write_gatt_char"
             /\ task'[t].err = "write_gatt_char"
             /\ ~task'[t].raised)
              => /\ task'[t].pc = "idle"
                 /\ task'[t].sent = "False"
                 /\ task'[t].writes = task[t].writes
                 /\ UNCHANGED <<lamp, radio>>]_vars

\* C23 witness: the single write of a turn_on() failed while the link was up;
\* the call returned False and the session is still Paired.
C23_Witness ==
    /\ task[1].pc = "idle" /\ task[1].op = "turn_on"
    /\ task[1].err = "write_gatt_char" /\ task[1].sent = "False"
    /\ Len(task[1].writes) = 1
    /\ conn = PAIRED /\ is_connected[client] /\ dropped = {}

\* C24: a connect() (or the connect() of an intent) that starts while the
\* client exists and is no longer connected awaits the radio disconnect of
\* that client whatever the state is, Paired included; when that await is over
\* the state is Disconnected and the call goes on to disconnect the old client
\* object and then to establish_connection.
C24_StaleHandleRecovery ==
    [][\A t \in Callers :
        /\ (/\ Calls(t) /\ task'[t].op \in Intents \cup {"connect"}
            /\ client # None /\ ~is_connected[client])
              => (/\ task'[t].pc = "disconnect_stale"
                  /\ task'[t].hnd = client
                  /\ task'[t].writes = <<>>)
        /\ (task[t].pc = "disconnect_stale" /\ task'[t].pc # "disconnect_stale")
              => (/\ conn' = DISCONNECTED
                  /\ task'[t].pc = "disconnect_old"
                  /\ task'[t].hnd = client)
        /\ (/\ task[t].pc = "disconnect_old" /\ task'[t].pc # "disconnect_old"
            /\ task[t].op # "disconnect")
              => (/\ conn' = DISCONNECTED
                  /\ task'[t].pc = "establish_connection"
                  /\ task'[t].estab = task[t].estab + 1)]_vars

\* C24 witness: the link of the client dropped and its notification is still
\* due, so the state is still Paired; a connect() has passed the check of the
\* dropped connection and awaits the radio disconnect.
C24_Witness ==
    /\ task[1].pc = "disconnect_stale" /\ task[1].op = "connect"
    /\ conn = PAIRED /\ client \in dropped /\ task[1].hnd = client

\* C25: every call, connect() included, comes to its end when its awaits
\* complete; outside connect() the state is Disconnected or Paired, never
\* Unpaired or Pairing; and an intent whose connect() established a link, with
\* every link ever established still up, ends Paired with its one frame handed
\* to write_gatt_char, and returns True unless that write raised.
C25_ConnectTerminates ==
    /\ \A t \in Callers : (task[t].pc # "idle") ~> (task[t].pc = "idle")
    /\ [](\A t \in Callers :
            /\ task[t].pc \notin InConnect => conn \in {DISCONNECTED, PAIRED}
            /\ (/\ task[t].pc = "idle" /\ task[t].op \in Intents
                /\ task[t].estab = 1 /\ task[t].err # "establish_connection"
                /\ \A h \in 1..handles : is_connected[h])
                  => (/\ conn = PAIRED
                      /\ task[t].writes = <<bits(task[t].op)>>
                      /\ task[t].err = "none" => task[t].sent = "True"))

\* C25 witness: on a fresh session turn_on() connected, paired, wrote its frame
\* and returned True; the link is up.
C25_Witness ==
    /\ task[1].pc = "idle" /\ task[1].op = "turn_on" /\ ~task[1].again
    /\ task[1].estab = 1 /\ task[1].err = "none" /\ task[1].sent = "True"
    /\ handles = 1 /\ is_connected[1] /\ conn = PAIRED

====
